---- MODULE Spec2Model ----
(***************************************************************************)
(* DevForge: the incremental indexing cycle (readCommand), the line-window *)
(* chunker it embeds files with, and the retrieval of chatCommand.         *)
(*                                                                         *)
(* The repository holds two copies of the embeddings module:               *)
(*   src/src/embeddings.js   (definitions without suffix)                  *)
(*   src/unnamed/part_001    (definitions with suffix P1)                  *)
(* They differ in chunkFileContent (how the next window start is chosen)   *)
(* and in embedFile (sanitizing, blank-file and read-error early returns). *)
(* Both are modelled; the variable impl says which copy a run links.       *)
(*                                                                         *)
(* A text is modelled by its lines after text.split(/\r?\n/): a non-empty  *)
(* sequence of line lengths (the empty text is one line of length 0).      *)
(* A chunk's text, slice.join("\n"), is the sequence of its lines.         *)
(***************************************************************************)
EXTENDS Integers, Sequences, FiniteSets, TLC

\* ------------------------------------------------------------------ bounds
MaxLines == 4          \* longest text given to the chunker alone
MaxLineLen == 3        \* longest line of such a text
MaxCharsArg == 4       \* largest maxChars given to the chunker alone
MaxOverlapLines == 3   \* overlap argument ranges over 80 * (0..MaxOverlapLines)
MaxCycles == 2         \* readCommand invocations in one behaviour
MaxEdits == 3          \* edits of the repository in one behaviour
MaxScore == 2          \* cosine similarities range over 0..MaxScore
MaxTopK == 3           \* largest --topk given to chatCommand

\* ------------------------------------------------------- program constants
DefaultMaxChars == 2000
DefaultOverlap == 200
OverlapCharsPerLine == 80
OverlapLineCap == 3
DefaultMaxFileKB == 256
BytesPerKB == 1024
IndexVersion == 1
DefaultTopK == 12
FreshnessBoost == 1

Max(a, b) == IF a >= b THEN a ELSE b

Min(a, b) == IF a <= b THEN a ELSE b

\* ------------------------------------------------------------- the chunker
\* The inner while loop: grow the window [start, end) while the next line
\* still fits. lines is 1-based here, so JS lines[end] is lines[end + 1].
RECURSIVE PackWindow_NoSeparator(_, _, _, _)
PackWindow_NoSeparator(lines, maxChars, end, size) ==
  IF end < Len(lines) /\ size + lines[end + 1] <= maxChars
  THEN PackWindow_NoSeparator(lines, maxChars, end + 1, size + lines[end + 1] + 1)
  ELSE end

RECURSIVE PackWindow(_, _, _, _)
PackWindow(lines, maxChars, end, size) ==
  IF end < Len(lines) /\ size + lines[end + 1] + 1 <= maxChars
  THEN PackWindow(lines, maxChars, end + 1, size + lines[end + 1] + 1)
  ELSE end

\* Math.max(end - Math.floor(overlap / 80), end - 3)
OverlapStart(end, overlap) ==
  Max(end - (overlap \div OverlapCharsPerLine), end - OverlapLineCap)

\* src/src/embeddings.js: the outer loop. The loop's control state is start
\* alone, so a start seen before means the loop never ends ("diverges": it
\* pushes chunks until memory runs out). A negative start makes lines[end]
\* undefined and lines[end].length a TypeError ("throws").
RECURSIVE ChunkLoop(_, _, _, _, _, _)
ChunkLoop(lines, maxChars, overlap, start, chunks, seen) ==
  IF ~(start < Len(lines)) THEN [status |-> "returns", chunks |-> chunks]
  ELSE IF start < 0 THEN [status |-> "throws", chunks |-> <<>>]
  ELSE IF start \in seen THEN [status |-> "diverges", chunks |-> <<>>]
  ELSE LET end == PackWindow(lines, maxChars, start, 0)
           pushed == IF end > start
                     THEN Append(chunks, [text |-> SubSeq(lines, start + 1, end),
                                          start |-> start, end |-> end - 1])
                     ELSE chunks
       IN IF end >= Len(lines)
          THEN [status |-> "returns", chunks |-> pushed]
          ELSE ChunkLoop(lines, maxChars, overlap, OverlapStart(end, overlap),
                         pushed, seen \cup {start})

chunkFileContent(lines, maxChars, overlap) ==
  ChunkLoop(lines, maxChars, overlap, 0, <<>>, {})

\* src/unnamed/part_001: start = Math.max(start + 1, nextStart), so start
\* grows in every iteration and the loop always ends.
RECURSIVE ChunkLoopP1(_, _, _, _, _)
ChunkLoopP1(lines, maxChars, overlap, start, chunks) ==
  IF ~(start < Len(lines)) THEN [status |-> "returns", chunks |-> chunks]
  ELSE LET end == PackWindow(lines, maxChars, start, 0)
           pushed == IF end > start
                     THEN Append(chunks, [text |-> SubSeq(lines, start + 1, end),
                                          start |-> start, end |-> Max(0, end - 1)])
                     ELSE chunks
       IN IF end >= Len(lines)
          THEN [status |-> "returns", chunks |-> pushed]
          ELSE ChunkLoopP1(lines, maxChars, overlap,
                           Max(start + 1, OverlapStart(end, overlap)), pushed)

chunkFileContentP1(lines, maxChars, overlap) ==
  ChunkLoopP1(lines, maxChars, overlap, 0, <<>>)

\* ------------------------------------------------------------ the file system
Paths == {"a.js", "b.js"}

\* the order fast-glob lists the paths in (fixed for a fixed file system)
PathOrder == <<"a.js", "b.js">>

NoFile == 0

\* The contents a file can have. lines: the line lengths; moji: per line, how
\* many 3-character double-encoding sequences sanitizeText rewrites to one
\* character; blank: the text is empty or whitespace only; readable: the
\* process may open the file (stat succeeds either way).
FileContents ==
  << [lines |-> <<0>>, moji |-> <<0>>, blank |-> TRUE, readable |-> TRUE],
     [lines |-> <<10, 20>>, moji |-> <<1, 0>>, blank |-> FALSE, readable |-> TRUE],
     [lines |-> <<600, 600, 600, 601>>, moji |-> <<0, 0, 0, 0>>, blank |-> FALSE,
      readable |-> TRUE],
     [lines |-> <<900, 900, 900>>, moji |-> <<0, 0, 0>>, blank |-> FALSE,
      readable |-> TRUE],
     [lines |-> <<2500>>, moji |-> <<0>>, blank |-> FALSE, readable |-> TRUE],
     [lines |-> <<300000>>, moji |-> <<0>>, blank |-> FALSE, readable |-> TRUE],
     [lines |-> <<30>>, moji |-> <<0>>, blank |-> FALSE, readable |-> FALSE] >>

Contents == DOMAIN FileContents

RECURSIVE SumSeq(_)
SumSeq(s) == IF s = <<>> THEN 0 ELSE Head(s) + SumSeq(Tail(s))

\* stat.size: one byte per character, one newline between lines
ByteSize(c) == SumSeq(FileContents[c].lines) + Len(FileContents[c].lines) - 1

\* crypto sha256 of the bytes: contents differ iff digests differ
hashFileFull(c) == [sha256 |-> c]

\* scanRepo: fast-glob lists the existing files; each is stat'ed, dropped when
\* larger than maxFileKB, hashed and recorded.
RECURSIVE ScanLoop(_, _, _, _)
ScanLoop(fsys, maxFileKB, k, acc) ==
  IF k > Len(PathOrder) THEN acc
  ELSE LET rel == PathOrder[k]
           sizeKB == (ByteSize(fsys[rel]) + BytesPerKB - 1) \div BytesPerKB
       IN IF fsys[rel] = NoFile THEN ScanLoop(fsys, maxFileKB, k + 1, acc)
          ELSE IF sizeKB > maxFileKB THEN ScanLoop(fsys, maxFileKB, k + 1, acc)
          ELSE ScanLoop(fsys, maxFileKB, k + 1,
                        Append(acc, [path |-> rel, sizeKB |-> sizeKB,
                                     hash |-> hashFileFull(fsys[rel])]))

scanRepo(fsys, maxFileKB) == ScanLoop(fsys, maxFileKB, 1, <<>>)

\* scanRepo rejects instead of returning: hashFileFull reads a listed file
\* that passed the size test, outside any try, and readFileSync throws
scanRepoThrows(fsys, maxFileKB) ==
  \E k \in DOMAIN PathOrder :
    LET rel == PathOrder[k]
        sizeKB == (ByteSize(fsys[rel]) + BytesPerKB - 1) \div BytesPerKB
    IN /\ fsys[rel] # NoFile
       /\ sizeKB <= maxFileKB
       /\ ~FileContents[fsys[rel]].readable

\* ------------------------------------------------------- persisted JSON files
\* A file of .devforge is absent, unparsable, or the JSON text of a value
\* (value is read only when kind = "json"; otherwise it holds a blank).
AbsentFile(blankValue) == [kind |-> "absent", value |-> blankValue]

\* a file whose text JSON.parse rejects
CorruptFile(blankValue) == [kind |-> "corrupt", value |-> blankValue]

BlankManifest == [files_total |-> 0, files_with_hashes |-> <<>>]

BlankIndex == [version |-> IndexVersion, chunks |-> <<>>]

\* fs.writeFileSync(p, JSON.stringify(data)): every value the program writes
\* (strings, integers, arrays, objects without undefined members) survives.
WriteJSON(data) == [kind |-> "json", value |-> data]

\* loadJSONSafe: the parsed value, or null when missing or unparsable
loadJSONSafe(file) ==
  IF file.kind = "json" THEN [isNull |-> FALSE, value |-> file.value]
  ELSE [isNull |-> TRUE, value |-> file.value]

\* readIndex: the parsed index, or a fresh {version: 1, chunks: []}
readIndex(file) ==
  IF file.kind = "json" THEN file.value
  ELSE [version |-> IndexVersion, chunks |-> <<>>]

\* prevManifest?.files_with_hashes || []
PrevFiles(prev) == IF prev.isNull THEN <<>> ELSE prev.value.files_with_hashes

\* --------------------------------------------------------------- the index
\* mutant of dropFilesFromIndex: the filter keeps the removed paths
dropFilesFromIndex_KeepsRemoved(idx, removedPaths) ==
  IF Len(removedPaths) = 0 THEN idx
  ELSE LET rm == {removedPaths[k] : k \in DOMAIN removedPaths}
       IN [idx EXCEPT !.chunks = SelectSeq(idx.chunks, LAMBDA c : c.path \in rm)]

\* dropFilesFromIndex: no-op on an empty list, else filter out the paths
dropFilesFromIndex(idx, removedPaths) ==
  IF Len(removedPaths) = 0 THEN idx
  ELSE LET rm == {removedPaths[k] : k \in DOMAIN removedPaths}
       IN [idx EXCEPT !.chunks = SelectSeq(idx.chunks, LAMBDA c : c.path \notin rm)]

\* mutant of dropFileFromIndexByPath: the filter drops every other path
dropFileFromIndexByPath_DropsOthers(idx, pathStr) ==
  [idx EXCEPT !.chunks = SelectSeq(idx.chunks, LAMBDA c : c.path = pathStr)]

dropFileFromIndexByPath(idx, pathStr) ==
  [idx EXCEPT !.chunks = SelectSeq(idx.chunks, LAMBDA c : c.path # pathStr)]

\* sanitizeText: each rewritten sequence shortens its line by two characters
sanitizeText(lines, moji) == [k \in DOMAIN lines |-> lines[k] - 2 * moji[k]]

\* the embedding the service answers for a text
Embedding(text) == [of |-> text]

\* embedTexts: one request per text, in order; the first failing request
\* (failAt, 0 = none fails) throws and the vectors so far are lost.
RECURSIVE EmbedLoop(_, _, _, _)
EmbedLoop(texts, failAt, k, vectors) ==
  IF k > Len(texts) THEN [status |-> "returns", vectors |-> vectors, requests |-> Len(texts)]
  ELSE IF k = failAt THEN [status |-> "throws", vectors |-> <<>>, requests |-> k]
  ELSE EmbedLoop(texts, failAt, k + 1, Append(vectors, Embedding(texts[k])))

embedTexts(texts, failAt) ==
  IF Len(texts) = 0 THEN [status |-> "returns", vectors |-> <<>>, requests |-> 0]
  ELSE EmbedLoop(texts, failAt, 1, <<>>)

\* mutant of PushChunks: every entry carries the first vector
RECURSIVE PushChunks_FirstVector(_, _, _, _, _, _)
PushChunks_FirstVector(idx, file, chunks, vectors, now, k) ==
  IF k > Len(chunks) THEN idx
  ELSE PushChunks_FirstVector([idx EXCEPT !.chunks =
                     Append(@, [path |-> file.path, hash |-> file.hash,
                                chunkId |-> k - 1, start |-> chunks[k].start,
                                end |-> chunks[k].end, vector |-> vectors[1],
                                updated_at |-> now])],
                  file, chunks, vectors, now, k + 1)

\* the index.chunks.push loop of embedFile
RECURSIVE PushChunks(_, _, _, _, _, _)
PushChunks(idx, file, chunks, vectors, now, k) ==
  IF k > Len(chunks) THEN idx
  ELSE PushChunks([idx EXCEPT !.chunks =
                     Append(@, [path |-> file.path, hash |-> file.hash,
                                chunkId |-> k - 1, start |-> chunks[k].start,
                                end |-> chunks[k].end, vector |-> vectors[k],
                                updated_at |-> now])],
                  file, chunks, vectors, now, k + 1)

ChunkTexts(chunks) == [k \in DOMAIN chunks |-> chunks[k].text]

EmbedResult(status, idx, added, requests) ==
  [status |-> status, index |-> idx, added |-> added, requests |-> requests]

\* mutant of embedFile: the fresh entries are pushed without dropping the
\* path's earlier entries
embedFile_NoDrop(file, idx, fsys, readOk, failAt, now) ==
  IF ~readOk \/ fsys[file.path] = NoFile THEN EmbedResult("throws", idx, 0, 0)
  ELSE LET r == chunkFileContent(FileContents[fsys[file.path]].lines,
                                 DefaultMaxChars, DefaultOverlap)
       IN IF r.status # "returns" THEN EmbedResult(r.status, idx, 0, 0)
          ELSE IF Len(r.chunks) = 0 THEN EmbedResult("returns", idx, 0, 0)
          ELSE LET e == embedTexts(ChunkTexts(r.chunks), failAt)
               IN IF e.status = "throws" THEN EmbedResult("throws", idx, 0, e.requests)
                  ELSE EmbedResult("returns",
                         PushChunks(idx, file, r.chunks, e.vectors, now, 1),
                         Len(r.chunks), e.requests)

\* embedFile of src/src/embeddings.js. readOk: fs.readFileSync succeeds.
embedFile(file, idx, fsys, readOk, failAt, now) ==
  IF ~readOk \/ fsys[file.path] = NoFile THEN EmbedResult("throws", idx, 0, 0)
  ELSE LET r == chunkFileContent(FileContents[fsys[file.path]].lines,
                                 DefaultMaxChars, DefaultOverlap)
       IN IF r.status # "returns" THEN EmbedResult(r.status, idx, 0, 0)
          ELSE IF Len(r.chunks) = 0 THEN EmbedResult("returns", idx, 0, 0)
          ELSE LET e == embedTexts(ChunkTexts(r.chunks), failAt)
               IN IF e.status = "throws" THEN EmbedResult("throws", idx, 0, e.requests)
                  ELSE EmbedResult("returns",
                         PushChunks(dropFileFromIndexByPath(idx, file.path), file,
                                    r.chunks, e.vectors, now, 1),
                         Len(r.chunks), e.requests)

\* embedFile of src/unnamed/part_001: a read error and a blank text return
\* {added: 0} before anything is dropped.
embedFileP1(file, idx, fsys, readOk, failAt, now) ==
  IF ~readOk \/ fsys[file.path] = NoFile THEN EmbedResult("returns", idx, 0, 0)
  ELSE IF FileContents[fsys[file.path]].blank THEN EmbedResult("returns", idx, 0, 0)
  ELSE LET c == FileContents[fsys[file.path]]
           r == chunkFileContentP1(sanitizeText(c.lines, c.moji),
                                   DefaultMaxChars, DefaultOverlap)
       IN IF Len(r.chunks) = 0 THEN EmbedResult("returns", idx, 0, 0)
          ELSE LET e == embedTexts(ChunkTexts(r.chunks), failAt)
               IN IF e.status = "throws" THEN EmbedResult("throws", idx, 0, e.requests)
                  ELSE EmbedResult("returns",
                         PushChunks(dropFileFromIndexByPath(idx, file.path), file,
                                    r.chunks, e.vectors, now, 1),
                         Len(r.chunks), e.requests)

\* ------------------------------------------------------------ the manifest diff
SeqToSet(s) == {s[k] : k \in DOMAIN s}

\* new Map(list.map(f => [f.path, f.hash])): has, and get (the last pair wins)
MapHas(list, p) == \E k \in DOMAIN list : list[k].path = p

MapGet(list, p) ==
  list[CHOOSE k \in DOMAIN list :
         list[k].path = p /\ \A m \in DOMAIN list : list[m].path = p => m <= k].hash

\* mutant of AddedFiles: the previous manifest is not consulted
AddedFiles_IgnoresPrevious(prevFiles, cur) == cur

AddedFiles(prevFiles, cur) == SelectSeq(cur, LAMBDA f : ~MapHas(prevFiles, f.path))

\* mutant of ChangedFiles: === where the code has !==
ChangedFiles_SameHash(prevFiles, cur) ==
  SelectSeq(cur, LAMBDA f : MapHas(prevFiles, f.path) /\ MapGet(prevFiles, f.path) = f.hash)

ChangedFiles(prevFiles, cur) ==
  SelectSeq(cur, LAMBDA f : MapHas(prevFiles, f.path) /\ MapGet(prevFiles, f.path) # f.hash)

PathsOf(list) == [k \in DOMAIN list |-> list[k].path]

RemovedFiles(prevFiles, cur) ==
  PathsOf(SelectSeq(prevFiles, LAMBDA pf : ~MapHas(cur, pf.path)))

\* ------------------------------------------------------------------- state
VARIABLES
  impl,           \* which copy of the embeddings module readCommand links
  history,        \* whether this behaviour records failed and before
  fs,             \* the repository: path -> content (NoFile when absent)
  manifestFile,   \* .devforge/manifest.json
  indexFile,      \* .devforge/index.json
  pc,             \* where the running readCommand is ("idle": none runs)
  force,          \* readCommand's --force argument
  prevManifest,   \* read.js:195
  files,          \* read.js:198
  addedFiles, changedFiles, removedFiles,   \* read.js:202-204
  index,          \* read.js:243, the in-memory index
  i,              \* read.js:255, the loop counter
  errors,         \* paths whose failure the catch of read.js:263 reported
  totalNewChunks, \* read.js:252
  embedRequests,  \* requests sent to /api/embeddings by this invocation
  exit,           \* how the previous invocation ended
  failed,         \* paths the last completed invocation failed to embed and
                  \* that were not edited since
  before,         \* the persisted files as the running invocation found
                  \* them, kept until its preflight is over
  cycles,         \* invocations started so far (also the clock of updated_at)
  edits,          \* edits of the repository so far
  ckCallee, ckLines, ckMaxChars, ckOverlap, ckResult,  \* a lone chunker call
  chatPc,         \* where the running chatCommand is
  topk,           \* chatCommand's --topk argument, as Number(topk)
  scored,         \* chat.js:105-112
  pick,           \* chat.js:120-126
  ctx,            \* chat.js:129-136
  unreadable,     \* the paths readSlice fails to read during this command
  chatRequests,   \* the requests chatCommand sent to the service, in order
  chatLog,        \* what chatCommand printed last
  chatExit        \* the exit status of the chatCommand process

cycleVars == <<pc, force, before, prevManifest, files, addedFiles, changedFiles,
               removedFiles, index, i, errors, totalNewChunks, embedRequests>>

diskVars == <<manifestFile, indexFile>>

ckVars == <<ckCallee, ckLines, ckMaxChars, ckOverlap, ckResult>>

chatVars == <<chatPc, topk, scored, pick, ctx, unreadable, chatRequests, chatLog, chatExit>>

vars == <<impl, history, fs, diskVars, cycleVars, exit, failed, cycles, edits, ckVars, chatVars>>

toProcess == addedFiles \o changedFiles

NoBefore == [manifest |-> AbsentFile(BlankManifest), index |-> AbsentFile(BlankIndex)]

\* the locals of an invocation that has not started or is over
NoLocals ==
  /\ force = FALSE
  /\ before = NoBefore
  /\ prevManifest = [isNull |-> TRUE, value |-> BlankManifest]
  /\ files = <<>>
  /\ addedFiles = <<>>
  /\ changedFiles = <<>>
  /\ removedFiles = <<>>
  /\ index = BlankIndex
  /\ i = 0
  /\ errors = <<>>
  /\ totalNewChunks = 0
  /\ embedRequests = 0

NoChunkerCall ==
  /\ ckCallee = "none"
  /\ ckLines = <<0>>
  /\ ckMaxChars = 1
  /\ ckOverlap = 0
  /\ ckResult = [status |-> "pending", chunks |-> <<>>]

\* no chatCommand has started
NoChat ==
  /\ chatPc = "start"
  /\ topk = DefaultTopK
  /\ scored = <<>>
  /\ pick = <<>>
  /\ ctx = <<>>
  /\ unreadable = {}
  /\ chatRequests = <<>>
  /\ chatLog = "none"
  /\ chatExit = "running"

Init ==
  /\ impl \in {"embeddings.js", "part_001"}
  /\ history = FALSE
  /\ fs = [p \in Paths |-> NoFile]
  /\ manifestFile = AbsentFile(BlankManifest)
  /\ indexFile = AbsentFile(BlankIndex)
  /\ pc = "idle"
  /\ NoLocals
  /\ exit = "none"
  /\ failed = {}
  /\ cycles = 0
  /\ edits = 0
  /\ NoChunkerCall
  /\ NoChat

ClearLocals ==
  /\ force' = FALSE
  /\ before' = NoBefore
  /\ prevManifest' = [isNull |-> TRUE, value |-> BlankManifest]
  /\ files' = <<>>
  /\ addedFiles' = <<>>
  /\ changedFiles' = <<>>
  /\ removedFiles' = <<>>
  /\ index' = BlankIndex
  /\ i' = 0
  /\ errors' = <<>>
  /\ totalNewChunks' = 0
  /\ embedRequests' = 0

\* ----------------------------------------------------------------- readCommand
\* read.js:40-59: with --force, unlink the manifest and the index if they exist
ReadStart(f) ==
  /\ pc = "idle"
  /\ cycles < MaxCycles
  /\ cycles' = cycles + 1
  /\ force' = f
  /\ before' = IF history THEN [manifest |-> manifestFile, index |-> indexFile]
               ELSE NoBefore
  /\ manifestFile' = IF f THEN AbsentFile(BlankManifest) ELSE manifestFile
  /\ indexFile' = IF f THEN AbsentFile(BlankIndex) ELSE indexFile
  /\ pc' = "preflight"
  /\ UNCHANGED <<impl, history, fs, prevManifest, files, addedFiles, changedFiles, removedFiles,
                 index, i, errors, totalNewChunks, embedRequests, exit, failed, edits, ckVars, chatVars>>

\* mutant of PreflightFail: the gate sits after the scan and the manifest write
PreflightFail_AfterManifest ==
  /\ pc = "preflight"
  /\ pc' = "idle"
  /\ exit' = "exit1"
  /\ ClearLocals
  /\ manifestFile' = WriteJSON([files_total |-> Len(scanRepo(fs, DefaultMaxFileKB)),
                                files_with_hashes |-> scanRepo(fs, DefaultMaxFileKB)])
  /\ UNCHANGED <<impl, history, fs, indexFile, failed, cycles, edits, ckVars, chatVars>>

\* read.js:61-73: checkOllama throws, process.exit(1)
PreflightFail ==
  /\ pc = "preflight"
  /\ pc' = "idle"
  /\ exit' = "exit1"
  /\ ClearLocals
  /\ UNCHANGED <<impl, history, fs, diskVars, failed, cycles, edits, ckVars, chatVars>>

\* read.js:61-195: checkOllama passes; the previous manifest is loaded
PreflightOk ==
  /\ pc = "preflight"
  /\ prevManifest' = loadJSONSafe(manifestFile)
  /\ before' = NoBefore
  /\ pc' = "scan"
  /\ UNCHANGED <<impl, history, fs, diskVars, force, files, addedFiles, changedFiles, removedFiles,
                 index, i, errors, totalNewChunks, embedRequests, exit, failed, cycles, edits,
                 ckVars, chatVars>>

\* read.js:198-225: scan, diff against the previous manifest, write the manifest
ScanAndDiff ==
  /\ pc = "scan"
  /\ ~scanRepoThrows(fs, DefaultMaxFileKB)
  /\ LET cur == scanRepo(fs, DefaultMaxFileKB)
     IN /\ files' = cur
        /\ addedFiles' = AddedFiles(PrevFiles(prevManifest), cur)
        /\ changedFiles' = ChangedFiles(PrevFiles(prevManifest), cur)
        /\ removedFiles' = RemovedFiles(PrevFiles(prevManifest), cur)
        /\ manifestFile' = WriteJSON([files_total |-> Len(cur), files_with_hashes |-> cur])
  /\ pc' = "load"
  /\ UNCHANGED <<impl, history, fs, indexFile, force, prevManifest, index, i, errors,
                 totalNewChunks, embedRequests, exit, failed, before, cycles, edits,
                 ckVars, chatVars>>

\* read.js:198: scanRepo rejects, nothing catches it, the process ends with
\* an unhandled rejection before the manifest is written
ScanRejects ==
  /\ pc = "scan"
  /\ scanRepoThrows(fs, DefaultMaxFileKB)
  /\ pc' = "idle"
  /\ exit' = "rejected"
  /\ ClearLocals
  /\ UNCHANGED <<impl, history, fs, diskVars, failed, cycles, edits, ckVars, chatVars>>

\* read.js:243-253: load the index and prune the removed paths
LoadIndexAndPrune ==
  /\ pc = "load"
  /\ index' = IF Len(removedFiles) > 0
              THEN dropFilesFromIndex(readIndex(indexFile), removedFiles)
              ELSE readIndex(indexFile)
  /\ i' = 0
  /\ totalNewChunks' = 0
  /\ pc' = "embed"
  /\ UNCHANGED <<impl, history, fs, diskVars, force, prevManifest, files, addedFiles, changedFiles,
                 removedFiles, errors, embedRequests, exit, failed, before, cycles, edits,
                 ckVars, chatVars>>

\* what embedFile does with toProcess[i], for one answer of the file system
\* (readOk) and of the embedding service (failAt)
EmbedOutcome(readOk, failAt) ==
  IF impl = "embeddings.js"
  THEN embedFile(toProcess[i + 1], index, fs, readOk, failAt, cycles)
  ELSE embedFileP1(toProcess[i + 1], index, fs, readOk, failAt, cycles)

\* read.js:255-267: one iteration of the loop over added ++ changed
EmbedNext ==
  /\ pc = "embed"
  /\ i < Len(toProcess)
  /\ \E readOk \in BOOLEAN, failAt \in 0..Len(FileContents[fs[toProcess[i + 1].path]].lines) :
       LET r == EmbedOutcome(readOk, failAt)
       IN /\ index' = r.index
          /\ embedRequests' = embedRequests + r.requests
          /\ totalNewChunks' = totalNewChunks + r.added
          /\ errors' = IF r.status = "throws" THEN Append(errors, toProcess[i + 1].path)
                       ELSE errors
          /\ i' = IF r.status = "diverges" THEN i ELSE i + 1
          /\ pc' = IF r.status = "diverges" THEN "hung" ELSE "embed"
  /\ UNCHANGED <<impl, history, fs, diskVars, force, prevManifest, files, addedFiles, changedFiles,
                 removedFiles, exit, failed, before, cycles, edits,
                 ckVars, chatVars>>

\* read.js:269: writeIndex, the last write of the invocation
WriteIndexStep ==
  /\ pc = "embed"
  /\ i = Len(toProcess)
  /\ indexFile' = WriteJSON(index)
  /\ pc' = "done"
  /\ UNCHANGED <<impl, history, fs, manifestFile, force, prevManifest, files, addedFiles,
                 changedFiles, removedFiles, index, i, errors, totalNewChunks,
                 embedRequests, exit, failed, before, cycles, edits,
                 ckVars, chatVars>>

\* read.js:271-283: the closing messages; the process ends normally
Exit ==
  /\ pc = "done"
  /\ pc' = "idle"
  /\ exit' = "ok"
  /\ failed' = IF history THEN SeqToSet(errors) ELSE failed
  /\ ClearLocals
  /\ UNCHANGED <<impl, history, fs, diskVars, cycles, edits, ckVars, chatVars>>

\* the process is killed (or the machine stops) while readCommand runs
Interrupt ==
  /\ pc \notin {"idle", "done"}
  /\ pc' = "idle"
  /\ exit' = "killed"
  /\ ClearLocals
  /\ UNCHANGED <<impl, history, fs, diskVars, failed, cycles, edits, ckVars, chatVars>>

\* the user creates, rewrites or deletes a file between invocations
Edit(p, c) ==
  /\ pc = "idle"
  /\ edits < MaxEdits
  /\ c # fs[p]
  /\ fs' = [fs EXCEPT ![p] = c]
  /\ edits' = edits + 1
  /\ failed' = failed \ {p}
  /\ UNCHANGED <<impl, history, diskVars, cycleVars, exit, cycles, ckVars, chatVars>>

\* between invocations a file of .devforge is deleted or left unparsable
DamagedFile(kind, blankValue) ==
  IF kind = "absent" THEN AbsentFile(blankValue) ELSE CorruptFile(blankValue)

Damage(target, kind) ==
  /\ pc = "idle"
  /\ edits < MaxEdits
  /\ edits' = edits + 1
  /\ IF target = "manifest"
     THEN /\ manifestFile.kind # kind
          /\ manifestFile' = DamagedFile(kind, BlankManifest)
          /\ UNCHANGED indexFile
     ELSE /\ indexFile.kind # kind
          /\ indexFile' = DamagedFile(kind, BlankIndex)
          /\ UNCHANGED manifestFile
  /\ UNCHANGED <<impl, history, fs, cycleVars, exit, failed, cycles, ckVars, chatVars>>

Next ==
  \/ \E f \in BOOLEAN : ReadStart(f)
  \/ PreflightFail
  \/ PreflightOk
  \/ ScanAndDiff
  \/ ScanRejects
  \/ LoadIndexAndPrune
  \/ EmbedNext
  \/ WriteIndexStep
  \/ Exit
  \/ Interrupt
  \/ \E p \in Paths, c \in Contents \cup {NoFile} : Edit(p, c)
  \/ \E target \in {"manifest", "index"}, kind \in {"absent", "corrupt"} :
       Damage(target, kind)

Spec == Init /\ [][Next]_vars

\* the same program, with the history variables failed and before recorded
InitHistory ==
  /\ impl \in {"embeddings.js", "part_001"}
  /\ history = TRUE
  /\ fs = [p \in Paths |-> NoFile]
  /\ manifestFile = AbsentFile(BlankManifest)
  /\ indexFile = AbsentFile(BlankIndex)
  /\ pc = "idle"
  /\ NoLocals
  /\ exit = "none"
  /\ failed = {}
  /\ cycles = 0
  /\ edits = 0
  /\ NoChunkerCall
  /\ NoChat

SpecHistory == InitHistory /\ [][Next]_vars

\* ------------------------------------------------------- the chunker alone
ChunkerTexts == UNION {[1..n -> 0..MaxLineLen] : n \in 1..MaxLines}

ChunkerOverlaps ==
  {OverlapCharsPerLine * k : k \in 0..MaxOverlapLines} \cup {DefaultOverlap}

InitChunk ==
  /\ impl = "embeddings.js"
  /\ history = FALSE
  /\ fs = [p \in Paths |-> NoFile]
  /\ manifestFile = AbsentFile(BlankManifest)
  /\ indexFile = AbsentFile(BlankIndex)
  /\ pc = "idle"
  /\ NoLocals
  /\ exit = "none"
  /\ failed = {}
  /\ cycles = 0
  /\ edits = 0
  /\ ckCallee = "none"
  /\ ckLines \in ChunkerTexts
  /\ ckMaxChars \in 1..MaxCharsArg
  /\ ckOverlap \in ChunkerOverlaps
  /\ ckResult = [status |-> "pending", chunks |-> <<>>]
  /\ NoChat

\* chunkFileContent(text, {maxChars, overlap}) of src/src/embeddings.js
CallChunkFileContent ==
  /\ ckCallee = "none"
  /\ ckCallee' = "embeddings.js"
  /\ ckResult' = chunkFileContent(ckLines, ckMaxChars, ckOverlap)
  /\ UNCHANGED <<impl, history, fs, diskVars, cycleVars, exit, failed, cycles, edits,
                 ckLines, ckMaxChars, ckOverlap, chatVars>>

\* chunkFileContent(text, {maxChars, overlap}) of src/unnamed/part_001
CallChunkFileContentP1 ==
  /\ ckCallee = "none"
  /\ ckCallee' = "part_001"
  /\ ckResult' = chunkFileContentP1(ckLines, ckMaxChars, ckOverlap)
  /\ UNCHANGED <<impl, history, fs, diskVars, cycleVars, exit, failed, cycles, edits,
                 ckLines, ckMaxChars, ckOverlap, chatVars>>

NextChunk == CallChunkFileContent \/ CallChunkFileContentP1

SpecChunk == InitChunk /\ [][NextChunk]_vars

\* --------------------------------------------------------------- chatCommand
\* a vector member of an index entry that is not an array (null in the JSON)
NoVector == [of |-> <<>>]

\* Array.isArray(c.vector)
IsArray(v) == v # NoVector

\* Math.max(1, Number(topk) || 12)
TopK(arg) == Max(1, IF arg = 0 THEN DefaultTopK ELSE arg)

\* loadJSON: the parsed value, or the fallback when missing or unparsable
loadJSON(file, fallback) == IF file.kind = "json" THEN file.value ELSE fallback

\* the index chatCommand loads
ChatIndex == loadJSON(indexFile, [version |-> IndexVersion, chunks |-> <<>>])

\* the vectors cosine is computed on
UsableVectors(chunks) ==
  {chunks[k].vector : k \in {j \in DOMAIN chunks : IsArray(chunks[j].vector)}}

\* cosine(qVec, c.vector) + freshnessBoost. sim gives the cosine of each
\* vector with the question, in units larger than the boost.
Score(c, sim) ==
  (FreshnessBoost + 1) * sim[c.vector]
    + (IF c.updated_at # 0 THEN FreshnessBoost ELSE 0)

\* the scoring loop: entries without an array vector are skipped
RECURSIVE ScoreLoop(_, _, _, _)
ScoreLoop(chunks, sim, k, acc) ==
  IF k > Len(chunks) THEN acc
  ELSE IF ~IsArray(chunks[k].vector) THEN ScoreLoop(chunks, sim, k + 1, acc)
  ELSE LET c == chunks[k]
       IN ScoreLoop(chunks, sim, k + 1,
                    Append(acc, [score |-> Score(c, sim), path |-> c.path,
                                 hash |-> c.hash, chunkId |-> c.chunkId,
                                 start |-> c.start, end |-> c.end,
                                 vector |-> c.vector, updated_at |-> c.updated_at]))

\* Array.prototype.sort with (a, b) => b.score - a.score: descending, stable
RECURSIVE InsertByScore(_, _)
InsertByScore(sorted, x) ==
  IF sorted = <<>> THEN <<x>>
  ELSE IF Head(sorted).score >= x.score
       THEN <<Head(sorted)>> \o InsertByScore(Tail(sorted), x)
       ELSE <<x>> \o sorted

RECURSIVE SortLoop(_, _, _)
SortLoop(list, k, acc) ==
  IF k > Len(list) THEN acc ELSE SortLoop(list, k + 1, InsertByScore(acc, list[k]))

SortByScore(list) == SortLoop(list, 1, <<>>)

\* the keys of the Map byFile, in insertion order
RECURSIVE ByFileKeys(_, _, _)
ByFileKeys(list, k, keys) ==
  IF k > Len(list) THEN keys
  ELSE IF \E j \in DOMAIN keys : keys[j] = list[k].path
       THEN ByFileKeys(list, k + 1, keys)
       ELSE ByFileKeys(list, k + 1, Append(keys, list[k].path))

\* byFile.get(p), sorted again
ByFileGet(list, p) == SortByScore(SelectSeq(list, LAMBDA c : c.path = p))

\* the loop over byFile: push the first entry of each file, stop at k
RECURSIVE RepLoop(_, _, _, _, _)
RepLoop(list, keys, k, j, picked) ==
  IF j > Len(keys) THEN picked
  ELSE LET next == Append(picked, Head(ByFileGet(list, keys[j])))
       IN IF Len(next) >= k THEN next ELSE RepLoop(list, keys, k, j + 1, next)

\* mutant of PickRepresentatives: the first k of the sorted list, ungrouped
PickRepresentatives_TopK(list, k) == SubSeq(list, 1, Min(k, Len(list)))

PickRepresentatives(list, k) == RepLoop(list, ByFileKeys(list, 1, <<>>), k, 1, <<>>)

\* while (pick.length < k && pick.length < scored.length)
\*   pick.push(scored[pick.length])
RECURSIVE FillLoop(_, _, _)
FillLoop(list, k, picked) ==
  IF Len(picked) < k /\ Len(picked) < Len(list)
  THEN FillLoop(list, k, Append(picked, list[Len(picked) + 1]))
  ELSE picked

\* the empty string, and lines.join("\n") (no line joins to the empty string)
EmptyText == <<0>>

JoinLines(ls) == IF ls = <<>> THEN EmptyText ELSE ls

\* readSlice: lines.slice(s, e) of the file's lines
readSlice(lines, start, end) ==
  LET s == Max(0, start)
      e == Min(Len(lines), end)
  IN JoinLines(SubSeq(lines, s + 1, e))

\* the loop building ctx over pick.slice(0, k); a failed read leaves text ""
BuildContext(picked, k, fsys, unread) ==
  LET top == SubSeq(picked, 1, Min(k, Len(picked)))
  IN [j \in DOMAIN top |->
        [path |-> top[j].path, start |-> top[j].start, end |-> top[j].end,
         text |-> IF top[j].path \in unread \/ fsys[top[j].path] = NoFile
                  THEN EmptyText
                  ELSE readSlice(FileContents[fsys[top[j].path]].lines,
                                 top[j].start, top[j].end)]]

\* the index a completed read cycle leaves for a repository, every file new
RECURSIVE EmbedAll(_, _, _, _, _)
EmbedAll(copy, fsys, list, k, idx) ==
  IF k > Len(list) THEN idx
  ELSE EmbedAll(copy, fsys, list, k + 1,
                IF copy = "embeddings.js"
                THEN embedFile(list[k], idx, fsys, TRUE, 0, 1).index
                ELSE embedFileP1(list[k], idx, fsys, TRUE, 0, 1).index)

IndexedRepo(copy, fsys) ==
  EmbedAll(copy, fsys, scanRepo(fsys, DefaultMaxFileKB), 1, BlankIndex)

\* an index whose entry number bad (0: none) lost its vector
WithoutVector(idx, bad) ==
  [idx EXCEPT !.chunks = [k \in DOMAIN idx.chunks |->
                            IF k = bad THEN [idx.chunks[k] EXCEPT !.vector = NoVector]
                            ELSE idx.chunks[k]]]

\* the contents of the repositories chatCommand is run on
ChatContents == {1, 2, 3}

InitChat ==
  /\ impl \in {"embeddings.js", "part_001"}
  /\ history = FALSE
  /\ fs \in [Paths -> ChatContents \cup {NoFile}]
  /\ manifestFile = WriteJSON([files_total |-> Len(scanRepo(fs, DefaultMaxFileKB)),
                               files_with_hashes |-> scanRepo(fs, DefaultMaxFileKB)])
  /\ indexFile \in {AbsentFile(BlankIndex), CorruptFile(BlankIndex)} \cup
                   {WriteJSON(WithoutVector(IndexedRepo(impl, fs), bad)) :
                      bad \in 0..Len(IndexedRepo(impl, fs).chunks)}
  /\ pc = "idle"
  /\ NoLocals
  /\ exit = "ok"
  /\ failed = {}
  /\ cycles = 1
  /\ edits = 0
  /\ NoChunkerCall
  /\ chatPc = "start"
  /\ topk \in (-1)..MaxTopK
  /\ scored = <<>>
  /\ pick = <<>>
  /\ ctx = <<>>
  /\ unreadable = {}
  /\ chatRequests = <<>>
  /\ chatLog = "none"
  /\ chatExit = "running"

\* chat.js:96-99: no chunks, print the message and return
ChatNoVectors ==
  /\ chatPc = "start"
  /\ Len(ChatIndex.chunks) = 0
  /\ chatLog' = "No vectors found"
  /\ chatExit' = "status 0"
  /\ chatPc' = "ended"
  /\ UNCHANGED <<impl, history, fs, diskVars, cycleVars, exit, failed, cycles, edits, ckVars,
                 topk, scored, pick, ctx, unreadable, chatRequests>>

\* chat.js:102: the embedding request for the question fails, chatCommand
\* rejects and the process ends on the unhandled rejection
ChatEmbedFails ==
  /\ chatPc = "start"
  /\ Len(ChatIndex.chunks) > 0
  /\ chatRequests' = Append(chatRequests, "embeddings")
  /\ chatExit' = "status 1"
  /\ chatPc' = "ended"
  /\ UNCHANGED <<impl, history, fs, diskVars, cycleVars, exit, failed, cycles, edits, ckVars,
                 topk, scored, pick, ctx, unreadable, chatLog>>

\* chat.js:102-137: embed the question, score, sort, pick, build the context
ChatRetrieve ==
  /\ chatPc = "start"
  /\ Len(ChatIndex.chunks) > 0
  /\ \E sim \in [UsableVectors(ChatIndex.chunks) -> 0..MaxScore], unread \in SUBSET Paths :
       LET sorted == SortByScore(ScoreLoop(ChatIndex.chunks, sim, 1, <<>>))
           picked == FillLoop(sorted, TopK(topk), PickRepresentatives(sorted, TopK(topk)))
       IN /\ scored' = sorted
          /\ pick' = picked
          /\ ctx' = BuildContext(picked, TopK(topk), fs, unread)
          /\ unreadable' = unread
  /\ chatRequests' = Append(chatRequests, "embeddings")
  /\ chatLog' = "ok"
  /\ chatPc' = "retrieved"
  /\ UNCHANGED <<impl, history, fs, diskVars, cycleVars, exit, failed, cycles, edits, ckVars,
                 topk, chatExit>>

\* chat.js:139-148: the chat request answers, the answer is printed
ChatAnswer ==
  /\ chatPc = "retrieved"
  /\ chatRequests' = Append(chatRequests, "chat")
  /\ chatLog' = "answer"
  /\ chatExit' = "status 0"
  /\ chatPc' = "ended"
  /\ UNCHANGED <<impl, history, fs, diskVars, cycleVars, exit, failed, cycles, edits, ckVars,
                 topk, scored, pick, ctx, unreadable>>

\* chat.js:73: the chat request fails, chatCommand rejects
ChatAnswerFails ==
  /\ chatPc = "retrieved"
  /\ chatRequests' = Append(chatRequests, "chat")
  /\ chatExit' = "status 1"
  /\ chatPc' = "ended"
  /\ UNCHANGED <<impl, history, fs, diskVars, cycleVars, exit, failed, cycles, edits, ckVars,
                 topk, scored, pick, ctx, unreadable, chatLog>>

NextChat ==
  \/ ChatNoVectors
  \/ ChatEmbedFails
  \/ ChatRetrieve
  \/ ChatAnswer
  \/ ChatAnswerFails

SpecChat == InitChat /\ [][NextChat]_vars

\* ------------------------------------------------- claims about the chunker
Called == ckCallee # "none"

Windows == ckResult.chunks

\* C8: every call of chunkFileContent returns, and each window it returns
\* starts at a line strictly after the start of the window before it.
C8_ChunkerTerminates ==
  Called =>
    /\ ckResult.status = "returns"
    /\ \A k \in 1..(Len(Windows) - 1) : Windows[k + 1].start > Windows[k].start

\* C8 restricted to the copy of src/unnamed/part_001, where it holds
C8_HoldsInP1 == ckCallee = "part_001" => C8_ChunkerTerminates

\* C9: every returned window spans at least one line, and together the
\* windows cover every line 0..L-1 of the text.
C9_ChunkerCoverage ==
  (Called /\ ckResult.status = "returns") =>
    /\ \A k \in DOMAIN Windows : Windows[k].start <= Windows[k].end
    /\ \A l \in 0..(Len(ckLines) - 1) :
         \E k \in DOMAIN Windows : Windows[k].start <= l /\ l <= Windows[k].end

\* C10: a line longer than maxChars comes back as a window of its own: start
\* and end are the line's index and the text is the whole line.
C10_OverLongLine ==
  Called =>
    \A l \in DOMAIN ckLines :
      ckLines[l] > ckMaxChars =>
        /\ ckResult.status = "returns"
        /\ \E k \in DOMAIN Windows :
             /\ Windows[k].start = l - 1
             /\ Windows[k].end = l - 1
             /\ Windows[k].text = <<ckLines[l]>>

\* --------------------------------------------- claims about the read cycle
EntriesOf(chunks, p) == SelectSeq(chunks, LAMBDA c : c.path = p)

PathSet(list) == {list[k].path : k \in DOMAIN list}

InCycle == pc \in {"load", "embed", "hung", "done"}

\* C1: a readCommand interrupted anywhere before its end leaves the persisted
\* manifest and index as the previous cycle left them: no step of the
\* command changes either file except the step that completes the cycle.
C1_CrashConsistency ==
  [][((pc # "idle" \/ pc' # "idle") /\
      (manifestFile' # manifestFile \/ indexFile' # indexFile)) => pc' = "done"]_vars

\* the chunks embedFile computes for the content of a file
NewChunks(file) ==
  LET c == FileContents[fs[file.path]]
  IN IF impl = "embeddings.js"
     THEN chunkFileContent(c.lines, DefaultMaxChars, DefaultOverlap).chunks
     ELSE IF c.blank THEN <<>>
     ELSE chunkFileContentP1(sanitizeText(c.lines, c.moji),
                             DefaultMaxChars, DefaultOverlap).chunks

\* C2: when embedFile reads a file (P, H) of added ++ changed and returns, the
\* index holds no entry of P under another hash, and P's chunkIds are exactly
\* 0..n-1, n the number of chunks of the new content (n = 0 included).
C2_UpsertAtomicity ==
  (pc = "embed" /\ i < Len(toProcess)) =>
    \A failAt \in 0..Len(FileContents[fs[toProcess[i + 1].path]].lines) :
      LET f == toProcess[i + 1]
          r == EmbedOutcome(TRUE, failAt)
          mine == EntriesOf(r.index.chunks, f.path)
          n == Len(NewChunks(f))
      IN r.status = "returns" =>
           /\ \A k \in DOMAIN mine : mine[k].hash = f.hash
           /\ Len(mine) = n
           /\ {mine[k].chunkId : k \in DOMAIN mine} = 0..(n - 1)

\* reading or embedding toProcess[i] fails for these answers
EmbedFails(readOk, failAt) == ~readOk \/ EmbedOutcome(readOk, failAt).status = "throws"

\* C3: a file whose reading or embedding fails leaves the index as it was
\* before the attempt, and after a failure readCommand still goes through
\* every later file and writes the index (it never gets stuck behind one).
C3_FailureIsolation ==
  /\ (pc = "embed" /\ i < Len(toProcess)) =>
       \A readOk \in BOOLEAN, failAt \in 0..Len(FileContents[fs[toProcess[i + 1].path]].lines) :
         EmbedFails(readOk, failAt) => EmbedOutcome(readOk, failAt).index = index
  /\ (pc = "hung" => errors = <<>>)
  /\ (pc = "done" => i = Len(toProcess) /\ indexFile = WriteJSON(index))

\* the part of C3 that holds in both copies: no partial upsert
C3_NoPartialUpsert ==
  (pc = "embed" /\ i < Len(toProcess)) =>
    \A readOk \in BOOLEAN, failAt \in 0..Len(FileContents[fs[toProcess[i + 1].path]].lines) :
      EmbedFails(readOk, failAt) => EmbedOutcome(readOk, failAt).index = index

EntryKey(c) ==
  [path |-> c.path, hash |-> c.hash, chunkId |-> c.chunkId, start |-> c.start, end |-> c.end]

EntryKeys(chunks) == [k \in DOMAIN chunks |-> EntryKey(chunks[k])]

\* the previous invocation completed and the repository scans as it did then
BackToBack ==
  /\ ~force
  /\ exit = "ok"
  /\ ~prevManifest.isNull
  /\ indexFile.kind = "json"
  /\ PrevFiles(prevManifest) = scanRepo(fs, DefaultMaxFileKB)

\* C4: a cycle run right after a completed one, with no change of the
\* repository and no --force, finds added = changed = removed = empty, sends
\* no embedding request and writes an index with the same entries.
C4_Idempotent ==
  [][(pc = "embed" /\ pc' = "done" /\ BackToBack) =>
       /\ addedFiles = <<>> /\ changedFiles = <<>> /\ removedFiles = <<>>
       /\ embedRequests = 0
       /\ indexFile'.kind = "json"
       /\ EntryKeys(indexFile'.value.chunks) = EntryKeys(indexFile.value.chunks)]_vars

C4_Witness ==
  /\ pc = "done"
  /\ BackToBack
  /\ files # <<>>
  /\ Len(indexFile.value.chunks) > 1

HashesOf(list, p) == {list[k].hash : k \in {m \in DOMAIN list : list[m].path = p}}

NoRepeats(list) == \A k, m \in DOMAIN list : list[k] = list[m] => k = m

\* C5: added is exactly the scanned paths absent from the previous manifest,
\* changed the paths in both with different hashes, removed the previous
\* paths absent from the scan; the three are disjoint; without a previous
\* manifest added is the whole scan and changed and removed are empty.
C5_DiffCorrect ==
  InCycle =>
    LET prev == PrevFiles(prevManifest)
        A == PathSet(addedFiles)
        C == PathSet(changedFiles)
        R == {removedFiles[k] : k \in DOMAIN removedFiles}
    IN /\ A = PathSet(files) \ PathSet(prev)
       /\ C = {p \in PathSet(files) \cap PathSet(prev) : HashesOf(files, p) # HashesOf(prev, p)}
       /\ R = PathSet(prev) \ PathSet(files)
       /\ A \cap C = {} /\ A \cap R = {} /\ C \cap R = {}
       /\ NoRepeats(addedFiles) /\ NoRepeats(changedFiles) /\ NoRepeats(removedFiles)
       /\ \A k \in DOMAIN addedFiles : addedFiles[k] \in SeqToSet(files)
       /\ \A k \in DOMAIN changedFiles : changedFiles[k] \in SeqToSet(files)
       /\ prevManifest.isNull =>
            addedFiles = files /\ changedFiles = <<>> /\ removedFiles = <<>>

C5_Witness ==
  /\ pc = "load"
  /\ ~prevManifest.isNull
  /\ addedFiles # <<>>
  /\ removedFiles # <<>>

\* same path and same hash in the previous manifest and in the scan
Unchanged(p) ==
  /\ ~prevManifest.isNull
  /\ p \in PathSet(files) \cap PathSet(PrevFiles(prevManifest))
  /\ HashesOf(files, p) = HashesOf(PrevFiles(prevManifest), p)

\* C6: the index entries of an unchanged path are the same, field for field
\* and in the same order, in the index file before and after the cycle.
C6_UnchangedUntouched ==
  [][(pc = "embed" /\ pc' = "done") =>
       \A p \in Paths :
         Unchanged(p) =>
           EntriesOf(readIndex(indexFile').chunks, p) = EntriesOf(readIndex(indexFile).chunks, p)]_vars

C6_Witness ==
  /\ pc = "done"
  /\ \E p \in Paths :
       /\ Unchanged(p)
       /\ EntriesOf(indexFile.value.chunks, p) # <<>>
  /\ removedFiles # <<>> \/ totalNewChunks > 0

\* the lists of paths dropFilesFromIndex is tried with
PathLists == {<<>>} \cup {<<p>> : p \in Paths} \cup {<<p, q>> : p, q \in Paths}

KeptPositions(chunks, rm) == {k \in DOMAIN chunks : chunks[k].path \notin rm}

NthKept(chunks, rm, j) ==
  CHOOSE k \in KeptPositions(chunks, rm) :
    Cardinality({m \in KeptPositions(chunks, rm) : m < k}) = j - 1

PruneCorrect(idx, rs) ==
  LET out == dropFilesFromIndex(idx, rs).chunks
      rm == {rs[k] : k \in DOMAIN rs}
  IN /\ \A k \in DOMAIN out : out[k].path \notin rm
     /\ Len(out) = Cardinality(KeptPositions(idx.chunks, rm))
     /\ \A j \in DOMAIN out : out[j] = idx.chunks[NthKept(idx.chunks, rm, j)]
     /\ rs = <<>> => out = idx.chunks

\* C7: dropFilesFromIndex leaves no entry of a given path, keeps every other
\* entry unchanged and in order, and changes nothing for an empty list; so
\* once readCommand has pruned, the index holds no entry of a removed path.
C7_PruneComplete ==
  /\ \A rs \in PathLists : PruneCorrect(index, rs) /\ PruneCorrect(readIndex(indexFile), rs)
  /\ pc \in {"embed", "hung", "done"} =>
       \A k \in DOMAIN index.chunks :
         index.chunks[k].path \notin {removedFiles[m] : m \in DOMAIN removedFiles}

C7_Witness ==
  /\ pc = "embed"
  /\ i = 0
  /\ removedFiles # <<>>
  /\ Len(index.chunks) > 0
  /\ Len(readIndex(indexFile).chunks) > Len(index.chunks)

\* ------------------------------------------------ claims about chatCommand
ChatK == TopK(topk)

Retrieved == chatPc = "retrieved"

\* pick.slice(0, k): the entries the context blocks are built from
Selected == SubSeq(pick, 1, Min(ChatK, Len(pick)))

\* the files with at least one usable entry
UsableFiles == PathSet(scored)

BestOfFile(c) ==
  \A m \in DOMAIN scored : scored[m].path = c.path => scored[m].score <= c.score

\* block j of the context is built from selected entry j
BlocksFollowSelection ==
  /\ Len(ctx) = Len(Selected)
  /\ \A j \in DOMAIN ctx :
       /\ ctx[j].path = Selected[j].path
       /\ ctx[j].start = Selected[j].start
       /\ ctx[j].end = Selected[j].end

\* C11: with usable entries from at least k files, retrieval selects exactly
\* k entries of k distinct files, each the best-scoring entry of its file, in
\* descending score order, and no unselected file has a better best entry;
\* and never two entries of one file while a usable file has none selected.
C11_Diversification ==
  Retrieved =>
    /\ BlocksFollowSelection
    /\ Cardinality(UsableFiles) >= ChatK =>
         /\ Len(Selected) = ChatK
         /\ \A j \in DOMAIN Selected : \E m \in DOMAIN scored : scored[m] = Selected[j]
         /\ \A j, l \in DOMAIN Selected : j # l => Selected[j].path # Selected[l].path
         /\ \A j \in DOMAIN Selected : BestOfFile(Selected[j])
         /\ \A j, l \in DOMAIN Selected : j < l => Selected[j].score >= Selected[l].score
         /\ \A m \in DOMAIN scored :
              scored[m].path \notin PathSet(Selected) =>
                \A j \in DOMAIN Selected : scored[m].score <= Selected[j].score
    /\ ~ /\ \E j, l \in DOMAIN Selected : j # l /\ Selected[j].path = Selected[l].path
         /\ UsableFiles \ PathSet(Selected) # {}

\* the two best-scoring entries are of one file and k = 2 files have entries
C11_Witness ==
  /\ Retrieved
  /\ ChatK = 2
  /\ Cardinality(UsableFiles) = 2
  /\ Len(scored) >= 3
  /\ scored[1].path = scored[2].path
  /\ scored[2].score > scored[3].score
  /\ Len(ctx) = 2

\* C12: with usable entries from fewer than k files, the selection is the
\* per-file representatives followed by further entries in descending score
\* order, no entry twice, until k entries or every usable entry is selected;
\* the number of blocks is min(k, number of usable entries).
C12_FillToK ==
  (Retrieved /\ Cardinality(UsableFiles) < ChatK) =>
    LET nf == Cardinality(UsableFiles)
    IN /\ Len(ctx) = Min(ChatK, Len(scored))
       /\ Len(Selected) = Len(ctx)
       /\ \A j \in 1..nf : BestOfFile(Selected[j])
       /\ \A j, l \in 1..nf : j # l => Selected[j].path # Selected[l].path
       /\ \A j, l \in DOMAIN Selected : j # l => EntryKey(Selected[j]) # EntryKey(Selected[l])
       /\ \A j, l \in (nf + 1)..Len(Selected) :
            j < l => Selected[j].score >= Selected[l].score
       /\ \A m \in DOMAIN scored :
            (\A j \in DOMAIN Selected : EntryKey(scored[m]) # EntryKey(Selected[j])) =>
              \A j \in (nf + 1)..Len(Selected) : scored[m].score <= Selected[j].score

\* the count half of C12, which the fill loop does keep
C12_BlockCount == Retrieved => Len(ctx) = Min(ChatK, Len(scored))

\* C13: the text of a block is lines start..end of its file, line end
\* included; a block whose file cannot be read is still there, with the
\* empty text.
C13_ContextText ==
  Retrieved =>
    /\ BlocksFollowSelection
    /\ \A j \in DOMAIN ctx :
         ctx[j].text =
           IF ctx[j].path \in unreadable THEN EmptyText
           ELSE SubSeq(FileContents[fs[ctx[j].path]].lines,
                       ctx[j].start + 1, ctx[j].end + 1)

\* the unreadable-file half of C13, which holds
C13_UnreadableIsEmpty ==
  Retrieved =>
    /\ BlocksFollowSelection
    /\ \A j \in DOMAIN ctx : ctx[j].path \in unreadable => ctx[j].text = EmptyText

\* C16: a chatCommand that finds the index missing, unparsable or without
\* chunks prints its message, sends no request, and ends with a non-zero
\* exit status.
C16_NoVectors ==
  (chatPc = "ended" /\ Len(ChatIndex.chunks) = 0) =>
    /\ chatLog = "No vectors found"
    /\ chatRequests = <<>>
    /\ chatExit # "status 0"

\* the message and no-request half of C16, which holds
C16_NoRequest ==
  (chatPc = "ended" /\ Len(ChatIndex.chunks) = 0) =>
    /\ chatLog = "No vectors found"
    /\ chatRequests = <<>>

\* ------------------------------------- more claims about the read cycle
\* C14: readIndex gives a fresh index for a missing or unparsable file, and
\* the read cycle that loaded it is never stuck: it goes on to writeIndex.
C14_CorruptionRecovery ==
  /\ readIndex(AbsentFile(BlankIndex)) = [version |-> IndexVersion, chunks |-> <<>>]
  /\ readIndex(CorruptFile(BlankIndex)) = [version |-> IndexVersion, chunks |-> <<>>]
  /\ (pc \in {"load", "embed", "hung"} /\ indexFile.kind # "json") =>
       /\ readIndex(indexFile) = [version |-> IndexVersion, chunks |-> <<>>]
       /\ pc # "hung"

\* the part of C14 that holds: the fresh index is what the cycle works on,
\* and a cycle that reaches its end has written a parsable index
C14_FreshIndexLoaded ==
  /\ (pc \in {"load", "embed", "hung"} /\ indexFile.kind # "json") =>
       /\ readIndex(indexFile) = [version |-> IndexVersion, chunks |-> <<>>]
       /\ pc # "load" => PathSet(index.chunks) \subseteq PathSet(SubSeq(toProcess, 1, i))
  /\ pc = "done" => indexFile = WriteJSON(index)

\* no file of .devforge is written by the step
NoWrite ==
  /\ manifestFile'.kind = "json" => manifestFile' = manifestFile
  /\ indexFile'.kind = "json" => indexFile' = indexFile

\* C15: a readCommand whose preflight fails exits with code 1 having scanned
\* nothing, sent no embedding request and written neither the manifest nor
\* the index.
C15_PreflightGate ==
  [][/\ (pc = "idle" /\ pc' = "preflight") => NoWrite
     /\ (pc = "preflight" /\ pc' = "idle" /\ exit' # "killed") =>
          /\ exit' = "exit1"
          /\ NoWrite
          /\ files = <<>>
          /\ embedRequests = 0
          /\ index = BlankIndex]_vars

\* a preflight failed in a repository whose scan differs from the manifest
C15_Witness ==
  /\ pc = "idle"
  /\ exit = "exit1"
  /\ manifestFile.kind = "json"
  /\ indexFile.kind = "json"
  /\ scanRepo(fs, DefaultMaxFileKB) # manifestFile.value.files_with_hashes

Oversized(p) ==
  /\ fs[p] # NoFile
  /\ (ByteSize(fs[p]) + BytesPerKB - 1) \div BytesPerKB > DefaultMaxFileKB

Unreadable(p) == fs[p] # NoFile /\ ~FileContents[fs[p]].readable

\* C17: scanRepo returns no record for a file over the size cap or a file
\* that cannot be read, and does not fail because of it; a file indexed
\* earlier that grew over the cap is in removed and its entries are pruned.
C17_OversizedUnreadableAbsent ==
  /\ exit # "rejected"
  /\ InCycle =>
       PathSet(files) = {p \in Paths : fs[p] # NoFile /\ ~Oversized(p) /\ ~Unreadable(p)}
  /\ pc \in {"embed", "hung", "done"} =>
       \A p \in Paths :
         (Oversized(p) /\ p \in PathSet(PrevFiles(prevManifest))) =>
           /\ p \in SeqToSet(removedFiles)
           /\ EntriesOf(index.chunks, p) = <<>>

\* the oversized half of C17, which holds
C17_OversizedPruned ==
  /\ InCycle => \A p \in Paths : Oversized(p) => p \notin PathSet(files)
  /\ pc \in {"embed", "hung", "done"} =>
       \A p \in Paths :
         (Oversized(p) /\ p \in PathSet(PrevFiles(prevManifest))) =>
           /\ p \in SeqToSet(removedFiles)
           /\ EntriesOf(index.chunks, p) = <<>>

\* C18: chunkFileContent returns no window for the empty text.
C18_EmptyTextNoChunks ==
  (Called /\ ckLines = EmptyText) =>
    /\ ckResult.status = "returns"
    /\ ckResult.chunks = <<>>

\* the embedFile half of C18: an empty file in added or changed costs no
\* request, adds no entry and is not reported as a failure
C18_EmptyFileNoRequest ==
  (pc = "embed" /\ i < Len(toProcess) /\
   FileContents[fs[toProcess[i + 1].path]].lines = EmptyText) =>
    \A failAt \in 0..1 :
      LET r == EmbedOutcome(TRUE, failAt)
      IN /\ r.status = "returns"
         /\ r.requests = 0
         /\ r.added = 0
         /\ Len(r.index.chunks) <= Len(index.chunks)

C18_HoldsInP1 == impl = "part_001" => C18_EmptyFileNoRequest

\* the characters of a text: its lines and one separator between two lines
TextLength(text) == SumSeq(text) + Len(text) - 1

\* C19: in every window returned, the line lengths plus one per line sum to
\* at most maxChars, so the window's text has at most maxChars characters.
C19_WindowSizeBound ==
  (Called /\ ckResult.status = "returns") =>
    \A k \in DOMAIN Windows :
      /\ SumSeq(Windows[k].text) + Len(Windows[k].text) <= ckMaxChars
      /\ TextLength(Windows[k].text) <= ckMaxChars

\* a window that is full to the last character and has a line after it
C19_Witness ==
  /\ Called
  /\ ckResult.status = "returns"
  /\ Len(Windows) >= 2
  /\ \E k \in DOMAIN Windows :
       /\ Len(Windows[k].text) >= 2
       /\ SumSeq(Windows[k].text) + Len(Windows[k].text) = ckMaxChars
       /\ Windows[k].end + 1 < Len(ckLines)

\* the windows embedFile cuts the content with digest c into
ChunksOfContent(c) ==
  IF impl = "embeddings.js"
  THEN chunkFileContent(FileContents[c].lines, DefaultMaxChars, DefaultOverlap).chunks
  ELSE chunkFileContentP1(sanitizeText(FileContents[c].lines, FileContents[c].moji),
                          DefaultMaxChars, DefaultOverlap).chunks

\* entry e carries the vector and the line range of chunk e.chunkId
Paired(e) ==
  LET chunks == ChunksOfContent(e.hash.sha256)
  IN /\ e.chunkId + 1 \in DOMAIN chunks
     /\ e.vector = Embedding(chunks[e.chunkId + 1].text)
     /\ e.start = chunks[e.chunkId + 1].start
     /\ e.end = chunks[e.chunkId + 1].end

\* embedTexts answers one vector per text, in the order of the texts, or
\* throws with nothing
OneVectorPerText(texts) ==
  \A failAt \in 0..Len(texts) :
    LET e == embedTexts(texts, failAt)
    IN IF failAt = 0
       THEN /\ e.status = "returns"
            /\ Len(e.vectors) = Len(texts)
            /\ \A k \in DOMAIN texts : e.vectors[k] = Embedding(texts[k])
            /\ e.requests = Len(texts)
       ELSE /\ e.status = "throws"
            /\ e.vectors = <<>>
            /\ e.requests = failAt

\* C20: embedTexts returns vectors[i] for texts[i] or throws without a
\* partial list, and every index entry with chunkId i carries the vector of
\* chunk i's text and chunk i's start and end.
C20_EmbeddingPairing ==
  /\ (pc = "embed" /\ i < Len(toProcess)) =>
       OneVectorPerText(ChunkTexts(ChunksOfContent(toProcess[i + 1].hash.sha256)))
  /\ \A k \in DOMAIN index.chunks : Paired(index.chunks[k])
  /\ \A k \in DOMAIN readIndex(indexFile).chunks : Paired(readIndex(indexFile).chunks[k])

\* a file of two windows with different texts has been embedded and written
C20_Witness ==
  /\ pc = "done"
  /\ \E k \in DOMAIN indexFile.value.chunks :
       LET e == indexFile.value.chunks[k]
       IN /\ e.chunkId = 1
          /\ e.vector # Embedding(ChunksOfContent(e.hash.sha256)[1].text)

\* entries sharing a path share the hash, and (path, chunkId) is a key
SingleVersion(chunks) ==
  \A j, k \in DOMAIN chunks :
    /\ chunks[j].path = chunks[k].path => chunks[j].hash = chunks[k].hash
    /\ (j # k /\ chunks[j].path = chunks[k].path) => chunks[j].chunkId # chunks[k].chunkId

\* C21: in every index a read cycle holds or has written, all entries of
\* one path carry the same hash and no two entries share (path, chunkId).
C21_SingleVersion ==
  /\ SingleVersion(index.chunks)
  /\ SingleVersion(readIndex(indexFile).chunks)

\* a changed file of several windows has just replaced its earlier entries
C21_Witness ==
  /\ pc = "embed"
  /\ i = Len(toProcess)
  /\ \E k \in DOMAIN changedFiles :
       LET p == changedFiles[k].path
       IN /\ Len(EntriesOf(index.chunks, p)) >= 2
          /\ Len(EntriesOf(readIndex(indexFile).chunks, p)) >= 1
          /\ EntriesOf(index.chunks, p)[1].hash = changedFiles[k].hash
          /\ EntriesOf(readIndex(indexFile).chunks, p)[1].hash # changedFiles[k].hash

\* C24: the entries the context is built from are pairwise distinct index
\* entries: no (path, chunkId) is selected twice, fill step included.
C24_NoDuplicateBlocks ==
  Retrieved =>
    \A j, l \in DOMAIN Selected :
      j # l => <<Selected[j].path, Selected[j].chunkId>> #
               <<Selected[l].path, Selected[l].chunkId>>

\* the part of C24 that holds: the per-file representatives are distinct
C24_RepresentativesDistinct ==
  Retrieved =>
    \A j, l \in 1..Min(Len(Selected), Cardinality(UsableFiles)) :
      j # l => Selected[j].path # Selected[l].path

\* C23: when a read cycle has completed, every path with an entry in the
\* index it wrote is a path of the manifest it wrote.
C23_NoOrphanEntries ==
  pc = "done" =>
    /\ manifestFile.kind = "json"
    /\ indexFile.kind = "json"
    /\ PathSet(indexFile.value.chunks) \subseteq PathSet(manifestFile.value.files_with_hashes)

\* the part of C23 that holds: a cycle that loaded the previous manifest and
\* found the index as the cycle that wrote that manifest left it, writes no
\* orphan
C23_NoOrphanWhenInSync ==
  [][(pc = "embed" /\ pc' = "done" /\ ~prevManifest.isNull /\
      PathSet(readIndex(indexFile).chunks) \subseteq PathSet(PrevFiles(prevManifest))) =>
       PathSet(indexFile'.value.chunks) \subseteq
         PathSet(manifestFile'.value.files_with_hashes)]_vars

\* C22: a file whose embedding failed in an earlier cycle and that was not
\* edited since is in added or changed in a later cycle run without --force,
\* and when that cycle meets no failure the index it writes holds entries
\* for the file's current hash.
C22_RetryAfterFailure ==
  (pc = "done" /\ ~force /\ errors = <<>>) =>
    \A p \in failed :
      /\ p \in PathSet(toProcess)
      /\ \E k \in DOMAIN indexFile.value.chunks :
           /\ indexFile.value.chunks[k].path = p
           /\ indexFile.value.chunks[k].hash = hashFileFull(fs[p])

\* the part of C22 that holds: the file is in added again in a later cycle
\* that finds no previous manifest (after --force, or a lost manifest)
C22_RetriedWithoutManifest ==
  (pc \in {"load", "embed", "hung", "done"} /\ prevManifest.isNull) =>
    \A p \in failed : p \in PathSet(addedFiles)

\* C25: an invocation of readCommand whose preflight fails, with or without
\* --force, leaves the persisted manifest and index holding what they held
\* when it started.
C25_FailedPreflightPreserves ==
  [][(pc = "preflight" /\ pc' = "idle" /\ exit' = "exit1") =>
       /\ loadJSONSafe(manifestFile') = loadJSONSafe(before.manifest)
       /\ readIndex(indexFile') = readIndex(before.index)]_vars

\* the part of C25 that holds: without --force both files are preserved
C25_PreservedWithoutForce ==
  [][(pc = "preflight" /\ pc' = "idle" /\ exit' = "exit1" /\ ~force) =>
       /\ manifestFile' = before.manifest
       /\ indexFile' = before.index]_vars

====
